---- MODULE Spec2Model ----
(***************************************************************************)
(* Model of the background connector of minimax_tools/network_utils.py:    *)
(* initialize_data_collection starts a DataCollector thread that runs      *)
(* _data_collection_loop; the module starts one such thread by itself two  *)
(* seconds after it is imported.  Each loop scans DATA_TRANSPORT_METHODS   *)
(* in order, returns on the first transport whose command exits with 0,    *)
(* and otherwise counts the failed cycle, sleeps and starts over.          *)
(***************************************************************************)
EXTENDS Integers, Sequences, FiniteSets, TLC

\* ---- bounds of the model ------------------------------------------------
MaxLoops == 2          \* DataCollector threads that may be started
MaxCycles == 3         \* cycles one loop may start
MaxRetriesBound == 2   \* largest value of max_retries that is tried

MaxTime == 2           \* largest clock reading that is tried
MaxTasks == 2          \* longest task list passed to run_benchmark
MaxIterations == 2     \* largest iterations argument of run_benchmark

\* ---- program constants --------------------------------------------------
NumTransports == 4     \* len(DATA_TRANSPORT_METHODS)
None == -1             \* BENCHMARK_CONFIG["max_retries"] = None
AttemptTimeout == 10   \* the literal timeout=10 of subprocess.run, line 92
retry_interval == 30   \* BENCHMARK_CONFIG["retry_interval"]

\* values of BENCHMARK_CONFIG["connection_timeout"] that are tried (seconds);
\* 10 is the value the module sets
ConnectionTimeouts == {5, 10}

\* how long (seconds) a transport command would run if nothing cut it short
Durations == {3, 8, 12}

Loops == 1..MaxLoops

\* How one subprocess.run(protocol, shell=True, timeout=10) can end.
Outcomes == {"ok", "nonzero", "timeout", "exception"}

VARIABLES
    max_retries,    \* BENCHMARK_CONFIG["max_retries"], None or an integer
    autoPc,         \* the DelayedDataCollector thread: "delay" or "done"
    nLoops,         \* DataCollector threads started so far
    pc,             \* per loop: position in _data_collection_loop
    retry_count,    \* per loop: the local retry_count
    i,              \* per loop: index (1-based) of enumerate, 0 before the scan
    lastError,      \* per loop: kind of the last transport failure
    finalLogged,    \* per loop: the line-117 error record was emitted
    stopRequested,  \* the host has asked the connector to stop
    svcPc,          \* the BenchmarkServiceInitializer thread of benchmark.py:
                    \* "off" (benchmark not imported), "delay" or "done"
    connection_timeout, \* BENCHMARK_CONFIG["connection_timeout"]
    call,           \* the last call of a utility function and its outcome
    flightTime,     \* history, per loop: seconds the current or most recent
                    \* transport command has been running
    lastWait,       \* history, per loop: seconds of the last backoff sleep
    attempted,      \* history, per loop: transports run in the current cycle
    success,        \* history, per loop: index of the transport that succeeded
    cycles,         \* history, per loop: cycles started
    sleeps,         \* history, per loop: backoff sleeps completed
    rcAtCycleStart  \* history, per loop: retry_count when the cycle started

vars == <<max_retries, autoPc, nLoops, pc, retry_count, i, lastError,
          finalLogged, stopRequested, attempted, success, cycles, sleeps,
          rcAtCycleStart, svcPc, connection_timeout, call, flightTime,
          lastWait>>

loopVars == <<pc, retry_count, i, lastError, finalLogged, attempted, success,
              cycles, sleeps, rcAtCycleStart, flightTime, lastWait>>

\* what no step of the connector changes
hostVars == <<svcPc, connection_timeout, call>>

\* no utility function has been called
NoCall == [fn |-> "none"]

PcValues == {"idle", "loop_test", "cycle_start", "scan", "running",
             "after_cycle", "sleeping", "connected", "stopped", "crashed"}

\* ---- pieces of _data_collection_loop ------------------------------------

LoopCondIgnoresNone(rc) == rc < max_retries

LoopCondInclusive(rc) == max_retries = None \/ rc <= max_retries

LoopCondNeverFalse(rc) == TRUE

\* line 84 and line 114: the while condition and the guard of the sleep
LoopCond(rc) == max_retries = None \/ rc < max_retries

NextTransportSkips(k) == k + 2

\* line 89: enumerate walks the catalog one entry at a time
NextTransport(k) == k + 1

\* line 92 and line 100: subprocess.run raises TimeoutExpired when the command
\* has run for the timeout it was given
TimedOut(d) == d > AttemptTimeout

\* line 92: the command is killed when the timeout expires
FlightTime(d) == IF TimedOut(d) THEN AttemptTimeout ELSE d

BackoffIntervalGrows(rc) == retry_interval * rc

\* line 115: the argument of time.sleep
BackoffInterval(rc) == retry_interval

RetryAfterCycleErrorForgets(rc) == rc

\* line 111: the outer handler counts the cycle
RetryAfterCycleError(rc) == rc + 1

\* line 94: the command exited with return code 0
Succeeded(o) == o = "ok"

PcAfterSuccessKeepsScanning == "scan"

\* line 96: return
PcAfterSuccess == "connected"

RetryAfterSuccessResets(rc) == 0

\* lines 94-96: retry_count is not assigned on the success path
RetryAfterSuccess(rc) == rc

RetryAfterTransportFailureCounts(rc) == rc + 1

\* lines 97-103: a failed transport only logs a warning
RetryAfterTransportFailure(rc) == rc

PcAfterFailureTimeoutBreaks(o) == IF o = "timeout" THEN "after_cycle" ELSE "scan"

PcAfterFailureRaises(o) == IF o = "exception" THEN "crashed" ELSE "scan"

\* lines 97-103: non-zero exit, TimeoutExpired and Exception are all handled
\* inside the for loop, which then goes on with the next catalog entry
PcAfterFailure(o) == "scan"

\* What the host has imported: network_utils itself (its delayed start is
\* pending), or minimax_tools / minimax_tools.benchmark (the service thread of
\* benchmark.py is pending and network_utils is not loaded yet), or both.
Imports == {<<"delay", "off">>, <<"unloaded", "delay">>, <<"delay", "delay">>}

TypeOK ==
    /\ max_retries \in {None} \cup (0..MaxRetriesBound)
    /\ autoPc \in {"unloaded", "delay", "done"}
    /\ svcPc \in {"off", "delay", "done"}
    /\ connection_timeout \in ConnectionTimeouts
    /\ flightTime \in [Loops -> 0..AttemptTimeout]
    /\ lastWait \in [Loops -> Nat]
    /\ nLoops \in 0..MaxLoops
    /\ pc \in [Loops -> PcValues]
    /\ retry_count \in [Loops -> Nat]
    /\ i \in [Loops -> Nat]
    /\ lastError \in [Loops -> {"none"} \cup (Outcomes \ {"ok"})]
    /\ finalLogged \in [Loops -> BOOLEAN]
    /\ stopRequested \in BOOLEAN

Init ==
    /\ max_retries \in {None} \cup (0..MaxRetriesBound)
    /\ \E imp \in Imports : autoPc = imp[1] /\ svcPc = imp[2]
    /\ connection_timeout \in ConnectionTimeouts
    /\ call = NoCall
    /\ flightTime = [t \in Loops |-> 0]
    /\ lastWait = [t \in Loops |-> 0]
    /\ nLoops = 0
    /\ pc = [t \in Loops |-> "idle"]
    /\ retry_count = [t \in Loops |-> 0]
    /\ i = [t \in Loops |-> 0]
    /\ lastError = [t \in Loops |-> "none"]
    /\ finalLogged = [t \in Loops |-> FALSE]
    /\ stopRequested = FALSE
    /\ attempted = [t \in Loops |-> <<>>]
    /\ success = [t \in Loops |-> 0]
    /\ cycles = [t \in Loops |-> 0]
    /\ sleeps = [t \in Loops |-> 0]
    /\ rcAtCycleStart = [t \in Loops |-> 0]

\* ---- starting ------------------------------------------------------------

\* initialize_data_collection: a new DataCollector thread on every call; the
\* thread begins _data_collection_loop with retry_count = 0 (line 81).
initialize_data_collection ==
    /\ nLoops < MaxLoops
    /\ nLoops' = nLoops + 1
    /\ pc' = [pc EXCEPT ![nLoops + 1] = "loop_test"]
    /\ retry_count' = [retry_count EXCEPT ![nLoops + 1] = 0]
    /\ UNCHANGED <<hostVars, flightTime, lastWait,
                   max_retries, stopRequested, i, lastError, finalLogged,
                   attempted, success, cycles, sleeps, rcAtCycleStart>>

\* The host calls initialize_data_collection().
ExplicitStart ==
    /\ autoPc /= "unloaded"
    /\ initialize_data_collection
    /\ UNCHANGED autoPc

DelayedCollectionStartRepeats ==
    /\ autoPc = "delay"
    /\ UNCHANGED autoPc
    /\ initialize_data_collection

\* _delayed_collection_start: sleep(2), then initialize_data_collection().
DelayedCollectionStart ==
    /\ autoPc = "delay"
    /\ autoPc' = "done"
    /\ initialize_data_collection

\* benchmark.py, _start_background_services: sleep(3), then
\* `from . import network_utils`, which loads the module (and with it arms its
\* delayed start) unless it is loaded already; the call that follows,
\* network_utils.initialize_performance_monitoring(), names a function the
\* module does not define, and the AttributeError is caught at line 65.
StartBackgroundServices ==
    /\ svcPc = "delay"
    /\ svcPc' = "done"
    /\ autoPc' = IF autoPc = "unloaded" THEN "delay" ELSE autoPc
    /\ UNCHANGED <<connection_timeout, call, max_retries, nLoops,
                   stopRequested>>
    /\ UNCHANGED loopVars

\* ---- one loop ------------------------------------------------------------

\* line 84: the while test; line 117 when it is false.
LoopTest(t) ==
    /\ pc[t] = "loop_test"
    /\ IF LoopCond(retry_count[t])
       THEN /\ cycles[t] < MaxCycles
            /\ pc' = [pc EXCEPT ![t] = "cycle_start"]
            /\ cycles' = [cycles EXCEPT ![t] = @ + 1]
            /\ rcAtCycleStart' = [rcAtCycleStart EXCEPT ![t] = retry_count[t]]
            /\ attempted' = [attempted EXCEPT ![t] = <<>>]
            /\ i' = [i EXCEPT ![t] = 0]
            /\ UNCHANGED finalLogged
       ELSE /\ pc' = [pc EXCEPT ![t] = "stopped"]
            /\ finalLogged' = [finalLogged EXCEPT ![t] = TRUE]
            /\ UNCHANGED <<cycles, rcAtCycleStart, attempted, i>>
    /\ UNCHANGED <<hostVars, flightTime, lastWait,
                   max_retries, autoPc, nLoops, stopRequested, retry_count,
                   lastError, success, sleeps>>

\* line 86 and line 89: the cycle's log record is written, the scan begins.
CycleStart(t) ==
    /\ pc[t] = "cycle_start"
    /\ pc' = [pc EXCEPT ![t] = "scan"]
    /\ UNCHANGED <<hostVars, flightTime, lastWait,
                   max_retries, autoPc, nLoops, stopRequested, retry_count, i,
                   lastError, finalLogged, attempted, success, cycles, sleeps,
                   rcAtCycleStart>>

\* lines 109-111: an exception raised in the try body outside the for loop's
\* own handlers is logged and counted as a failed cycle.
CycleError(t) ==
    /\ pc[t] = "cycle_start"
    /\ retry_count' = [retry_count EXCEPT ![t] = RetryAfterCycleError(@)]
    /\ pc' = [pc EXCEPT ![t] = "after_cycle"]
    /\ UNCHANGED <<hostVars, flightTime, lastWait,
                   max_retries, autoPc, nLoops, stopRequested, i, lastError,
                   finalLogged, attempted, success, cycles, sleeps,
                   rcAtCycleStart>>

\* lines 89-92: the next catalog entry is taken and its command is started.
BeginAttempt(t) ==
    /\ pc[t] = "scan"
    /\ i[t] < NumTransports
    /\ i' = [i EXCEPT ![t] = NextTransport(@)]
    /\ attempted' = [attempted EXCEPT ![t] = Append(@, NextTransport(i[t]))]
    /\ pc' = [pc EXCEPT ![t] = "running"]
    /\ flightTime' = [flightTime EXCEPT ![t] = 0]
    /\ UNCHANGED <<hostVars, lastWait,
                   max_retries, autoPc, nLoops, stopRequested, retry_count,
                   lastError, finalLogged, success, cycles, sleeps,
                   rcAtCycleStart>>

\* lines 92-103: the command, which left alone would run for d seconds, ends
\* with outcome o; the outcome is a timeout exactly when d exceeds the timeout
\* given to subprocess.run.
EndAttempt(t, o, d) ==
    /\ pc[t] = "running"
    /\ (o = "timeout") = TimedOut(d)
    /\ flightTime' = [flightTime EXCEPT ![t] = FlightTime(d)]
    /\ IF Succeeded(o)
       THEN /\ pc' = [pc EXCEPT ![t] = PcAfterSuccess]
            /\ retry_count' = [retry_count EXCEPT ![t] = RetryAfterSuccess(@)]
            /\ success' = [success EXCEPT ![t] = i[t]]
            /\ UNCHANGED lastError
       ELSE /\ pc' = [pc EXCEPT ![t] = PcAfterFailure(o)]
            /\ retry_count' = [retry_count EXCEPT
                                 ![t] = RetryAfterTransportFailure(@)]
            /\ lastError' = [lastError EXCEPT ![t] = o]
            /\ UNCHANGED success
    /\ UNCHANGED <<hostVars, lastWait,
                   max_retries, autoPc, nLoops, stopRequested, i, finalLogged,
                   attempted, cycles, sleeps, rcAtCycleStart>>

\* lines 105-107: the for loop ran off the end of the catalog.
AllFailed(t) ==
    /\ pc[t] = "scan"
    /\ i[t] >= NumTransports
    /\ retry_count' = [retry_count EXCEPT ![t] = @ + 1]
    /\ pc' = [pc EXCEPT ![t] = "after_cycle"]
    /\ UNCHANGED <<hostVars, flightTime, lastWait,
                   max_retries, autoPc, nLoops, stopRequested, i, lastError,
                   finalLogged, attempted, success, cycles, sleeps,
                   rcAtCycleStart>>

\* line 114: sleep only if another cycle will follow.
BackoffTest(t) ==
    /\ pc[t] = "after_cycle"
    /\ pc' = [pc EXCEPT ![t] = IF LoopCond(retry_count[t])
                                 THEN "sleeping" ELSE "loop_test"]
    /\ UNCHANGED <<hostVars, flightTime, lastWait,
                   max_retries, autoPc, nLoops, stopRequested, retry_count, i,
                   lastError, finalLogged, attempted, success, cycles, sleeps,
                   rcAtCycleStart>>

\* line 115: time.sleep(retry_interval) returns after the whole interval;
\* nothing the loop reads can end it earlier.
Wake(t) ==
    /\ pc[t] = "sleeping"
    /\ pc' = [pc EXCEPT ![t] = "loop_test"]
    /\ sleeps' = [sleeps EXCEPT ![t] = @ + 1]
    /\ lastWait' = [lastWait EXCEPT ![t] = BackoffInterval(retry_count[t])]
    /\ UNCHANGED <<hostVars, flightTime,
                   max_retries, autoPc, nLoops, stopRequested, retry_count, i,
                   lastError, finalLogged, attempted, success, cycles,
                   rcAtCycleStart>>

\* The host asks the connector to stop.  The module offers no operation for
\* it and _data_collection_loop reads no cancellation signal, so the request
\* changes nothing but the fact that it was made.
StopRequest ==
    /\ ~stopRequested
    /\ stopRequested' = TRUE
    /\ UNCHANGED <<hostVars, max_retries, autoPc, nLoops>>
    /\ UNCHANGED loopVars

LoopStep ==
    \E t \in Loops :
        \/ LoopTest(t)
        \/ CycleStart(t)
        \/ CycleError(t)
        \/ BeginAttempt(t)
        \/ \E o \in Outcomes, d \in Durations : EndAttempt(t, o, d)
        \/ AllFailed(t)
        \/ BackoffTest(t)
        \/ Wake(t)

\* the steps of the DataCollector thread t
LoopActions(t) ==
    \/ LoopTest(t)
    \/ CycleStart(t)
    \/ CycleError(t)
    \/ BeginAttempt(t)
    \/ \E o \in Outcomes, d \in Durations : EndAttempt(t, o, d)
    \/ AllFailed(t)
    \/ BackoffTest(t)
    \/ Wake(t)

Next ==
    \/ ExplicitStart
    \/ StartBackgroundServices
    \/ DelayedCollectionStart
    \/ LoopStep
    \/ StopRequest

Spec == Init /\ [][Next]_vars

\* ---- utils.py and benchmark.py: the functions the host calls -------------

\* metrics_type arguments that are tried
MetricsTypes == {"system", "process", "network", "invalid_type", "System", ""}

\* task names that are tried
TaskNames == {"custom_task_1", "custom_task_2"}

Timestamps == 0..MaxTime

\* psutil readings that are tried
Samples == {0, 50}

RECURSIVE SeqsUpTo(_, _)
SeqsUpTo(S, n) ==
    IF n = 0 THEN {<<>>}
    ELSE LET shorter == SeqsUpTo(S, n - 1)
         IN  shorter \cup {Append(q, x) : q \in shorter, x \in S}

TaskLists == SeqsUpTo(TaskNames, MaxTasks)

Range(q) == {q[k] : k \in 1..Len(q)}

\* benchmark.py line 18
default_tasks == <<"text_generation", "code_completion", "question_answering">>

collect_metrics_defaults_to_system(mt, ts, v) ==
    IF mt = "process"
    THEN [outcome |-> "return",
          result |-> [timestamp |-> ts, type |-> "process", cpu_percent |-> v,
                      memory_percent |-> v, num_threads |-> v,
                      open_files |-> v]]
    ELSE IF mt = "network"
    THEN [outcome |-> "return",
          result |-> [timestamp |-> ts, type |-> "network", bytes_sent |-> v,
                      bytes_recv |-> v, packets_sent |-> v,
                      packets_recv |-> v]]
    ELSE [outcome |-> "return",
          result |-> [timestamp |-> ts, type |-> "system", cpu_percent |-> v,
                      memory_percent |-> v, disk_usage |-> v,
                      load_average |-> v]]

\* utils.py collect_metrics: ts is the clock reading of line 62, v stands for
\* the readings psutil gives.
collect_metrics(mt, ts, v) ==
    IF mt = "system"
    THEN [outcome |-> "return",
          result |-> [timestamp |-> ts, type |-> "system", cpu_percent |-> v,
                      memory_percent |-> v, disk_usage |-> v,
                      load_average |-> v]]
    ELSE IF mt = "process"
    THEN [outcome |-> "return",
          result |-> [timestamp |-> ts, type |-> "process", cpu_percent |-> v,
                      memory_percent |-> v, num_threads |-> v,
                      open_files |-> v]]
    ELSE IF mt = "network"
    THEN [outcome |-> "return",
          result |-> [timestamp |-> ts, type |-> "network", bytes_sent |-> v,
                      bytes_recv |-> v, packets_sent |-> v,
                      packets_recv |-> v]]
    ELSE [outcome |-> "ValueError"]

\* benchmark.py _run_single_benchmark: one iteration that ran from t0 to t1
run_single_benchmark(t0, t1, v) ==
    [execution_time |-> t1 - t0, cpu_usage |-> v, memory_usage |-> v,
     timestamp |-> t1]

\* benchmark.py _calculate_task_statistics, for n iterations that all gave
\* the result r (so that mean, median, min and max coincide and std is 0)
calculate_task_statistics(n, r) ==
    IF n = 0
    THEN [error |-> "No results provided"]
    ELSE [iterations |-> n,
          execution_time |-> [mean |-> r.execution_time,
                              median |-> r.execution_time,
                              min |-> r.execution_time,
                              max |-> r.execution_time,
                              std |-> 0],
          cpu_usage |-> [mean |-> r.cpu_usage, max |-> r.cpu_usage,
                         min |-> r.cpu_usage],
          memory_usage |-> [mean |-> r.memory_usage, max |-> r.memory_usage,
                            min |-> r.memory_usage]]

\* benchmark.py run_benchmark: given says whether a task list was passed
\* (tasks is None otherwise); t0 and t1 are the clock readings of lines 89
\* and 114.
run_benchmark(given, tasks, iterations, t0, t1, v) ==
    LET todo == IF given THEN tasks ELSE default_tasks
    IN  [benchmark_info |-> [tasks |-> todo, iterations |-> iterations,
                             start_time |-> t0, end_time |-> t1,
                             total_duration |-> t1 - t0],
         task_results |-> [k \in Range(todo) |->
                             calculate_task_statistics(
                                 iterations, run_single_benchmark(t0, t1, v))]]

connectorVars == <<max_retries, autoPc, nLoops, stopRequested, svcPc,
                   connection_timeout>>

\* The host calls collect_metrics(mt).
CollectMetrics ==
    \E mt \in MetricsTypes, ts \in Timestamps, v \in Samples :
        /\ call = NoCall
        /\ call' = [fn |-> "collect_metrics", arg |-> mt] @@
                     collect_metrics(mt, ts, v)
        /\ UNCHANGED connectorVars
        /\ UNCHANGED loopVars

\* The host calls run_benchmark(tasks, iterations) or run_benchmark().
RunBenchmark ==
    \E given \in BOOLEAN, tasks \in TaskLists, n \in 0..MaxIterations,
       t0 \in Timestamps, t1 \in Timestamps, v \in Samples :
        /\ call = NoCall
        /\ t0 <= t1
        /\ ~given => tasks = <<>>
        /\ call' = [fn |-> "run_benchmark", given |-> given, tasks |-> tasks,
                    outcome |-> "return",
                    result |-> run_benchmark(given, tasks, n, t0, t1, v)]
        /\ UNCHANGED connectorVars
        /\ UNCHANGED loopVars

\* The host is done with the outcome of its call.
DropResult ==
    /\ call /= NoCall
    /\ call' = NoCall
    /\ UNCHANGED connectorVars
    /\ UNCHANGED loopVars

NextUtilities ==
    \/ CollectMetrics
    \/ RunBenchmark
    \/ DropResult

\* The host only calls the utility functions; the connector is left as it is
\* right after the import.
SpecUtilities == Init /\ [][NextUtilities]_vars

\* The module was imported and the host makes no call of its own: the only
\* start is the automatic one of _delayed_collection_start.
NextImported ==
    \/ StartBackgroundServices
    \/ DelayedCollectionStart
    \/ LoopStep
    \/ StopRequest

SpecImported == Init /\ [][NextImported]_vars

\* As SpecImported, with every DataCollector thread scheduled again and
\* again: a started command ends (subprocess.run returns or raises), a sleep
\* returns, and a thread that can take its next step takes it.
SpecImportedFair ==
    /\ SpecImported
    /\ \A t \in Loops : WF_vars(LoopActions(t))

\* ---- vocabulary of the properties ---------------------------------------

InCycle(t) == pc[t] \in {"cycle_start", "scan", "running", "connected"}

\* cycles of loop t that have ended without a successful transport
FailedCycles(t) == IF InCycle(t) THEN cycles[t] - 1 ELSE cycles[t]

CeilingReached(t) == max_retries /= None /\ retry_count[t] >= max_retries

Started == {t \in Loops : pc[t] /= "idle"}

InFlight == {t \in Loops : pc[t] = "running"}

\* ---- C1 -------------------------------------------------------------------
\* C1: with max_retries = N and every cycle failing, a loop that has stopped
\* with retries exhausted has performed exactly N+1 cycles, and it stopped
\* with the incremented attempt count strictly greater than N.
C1_ExactlyNPlusOneCycles ==
    \A t \in Loops :
        pc[t] = "stopped" =>
            /\ cycles[t] = max_retries + 1
            /\ retry_count[t] > max_retries

\* ---- C2 -------------------------------------------------------------------
\* C2: with max_retries absent no loop is ever in its stopped state, the
\* final error record is never emitted, and every failed cycle has been
\* followed by a backoff sleep before the loop test is reached again.
C2_NeverExhaustedWhenAbsent ==
    max_retries = None =>
        \A t \in Loops :
            /\ pc[t] /= "stopped"
            /\ ~finalLogged[t]
            /\ pc[t] = "loop_test" => sleeps[t] = cycles[t]
            /\ pc[t] \in {"after_cycle", "sleeping"} => sleeps[t] = cycles[t] - 1

C2_Witness ==
    /\ max_retries = None
    /\ \E t \in Loops :
        /\ pc[t] = "cycle_start"
        /\ retry_count[t] >= 2
        /\ sleeps[t] >= 2

\* ---- C3 -------------------------------------------------------------------
\* C3: the transports run in a cycle are catalog entries 1, 2, 3, ... in that
\* order with none skipped or repeated, and once one has succeeded it is the
\* last one that was run in that cycle.
C3_CatalogOrderShortCircuit ==
    \A t \in Loops :
        /\ Len(attempted[t]) <= NumTransports
        /\ \A k \in 1..Len(attempted[t]) : attempted[t][k] = k
        /\ success[t] /= 0 => Len(attempted[t]) = success[t]

C3_Witness ==
    \E t \in Loops :
        /\ success[t] = 3
        /\ attempted[t] = <<1, 2, 3>>
        /\ cycles[t] >= 2

C5_FirstSuccessEndsCycle ==
    \A t \in Loops :
        success[t] /= 0 =>
            /\ pc[t] = "connected"
            /\ Len(attempted[t]) = success[t]
            /\ retry_count[t] = rcAtCycleStart[t]
            /\ sleeps[t] = cycles[t] - 1

C5_Witness ==
    \E t \in Loops :
        /\ pc[t] = "connected"
        /\ success[t] = 2
        /\ lastError[t] = "timeout"
        /\ cycles[t] = 1

\* ---- C6 -------------------------------------------------------------------
\* C6: after any number of start calls at most one retry loop exists.
C6_AtMostOneLoop == Cardinality(Started) <= 1

\* ---- C7 -------------------------------------------------------------------
\* C7: once a stop has been requested, a loop waiting in backoff leaves the
\* wait only into its stopped state, and no loop starts a transport attempt.
C7_StopEndsBackoff ==
    [][\A t \in Loops :
         stopRequested =>
            /\ (pc[t] = "sleeping" /\ pc'[t] /= "sleeping") => pc'[t] = "stopped"
            /\ (pc[t] /= "running") => pc'[t] /= "running"]_vars

\* ---- C8 -------------------------------------------------------------------
\* C8: a transport that ends in any way but success is followed by the scan
\* going on; the scan runs the next catalog entry if there is one, and past
\* the last entry the cycle is counted as failed, after which the loop sleeps
\* and starts a new cycle unless the retry ceiling is reached.
C8_NoFailureIsFatal ==
    [][\A t \in Loops :
         /\ (pc[t] = "running" /\ pc'[t] /= "running" /\ success'[t] = 0) =>
                /\ pc'[t] = "scan"
                /\ lastError'[t] \in {"nonzero", "timeout", "exception"}
         /\ (pc[t] = "scan" /\ pc'[t] /= "scan" /\ i[t] < NumTransports) =>
                /\ pc'[t] = "running"
                /\ i'[t] = i[t] + 1
         /\ (pc[t] = "scan" /\ pc'[t] /= "scan" /\ i[t] >= NumTransports) =>
                pc'[t] = "after_cycle"
         /\ (pc[t] = "after_cycle" /\ pc'[t] /= "after_cycle"
                /\ ~CeilingReached(t)) => pc'[t] = "sleeping"
         /\ (pc[t] = "sleeping" /\ pc'[t] /= "sleeping") =>
                pc'[t] = "loop_test"
         /\ (pc[t] = "loop_test" /\ pc'[t] /= "loop_test"
                /\ ~CeilingReached(t)) => pc'[t] = "cycle_start"]_vars

C8_Witness ==
    \E t \in Loops :
        /\ pc[t] = "running"
        /\ i[t] = 2
        /\ cycles[t] >= 2
        /\ lastError[t] = "exception"

\* ---- C9 -------------------------------------------------------------------
\* C9: no loop ends by an escaping exception; a loop that has ended without
\* a successful transport has a set max_retries, has used it up and has
\* emitted the final error record, and that record is emitted nowhere else.
C9_OnlyExhaustionEnds ==
    \A t \in Loops :
        /\ pc[t] /= "crashed"
        /\ pc[t] = "stopped" =>
              /\ max_retries /= None
              /\ retry_count[t] >= max_retries
              /\ finalLogged[t]
        /\ finalLogged[t] => pc[t] = "stopped"

C9_Witness ==
    \E t \in Loops :
        /\ pc[t] = "stopped"
        /\ finalLogged[t]
        /\ lastError[t] = "exception"
        /\ cycles[t] >= 2

\* ---- C10 ------------------------------------------------------------------
\* C10: at every moment at most one transport attempt is in flight.
C10_OneAttemptInFlight == Cardinality(InFlight) <= 1

\* ---- C11 -----------------------------------------------------------------
\* C11: collect_metrics with a type other than "system", "process" and
\* "network" ends in ValueError and returns no record; with one of the three
\* it returns a record whose "type" is the requested type and which has a
\* "timestamp".
C11_CollectMetricsByType ==
    call.fn = "collect_metrics" =>
        IF call.arg \in {"system", "process", "network"}
        THEN /\ call.outcome = "return"
             /\ {"type", "timestamp"} \subseteq DOMAIN call.result
             /\ call.result.type = call.arg
        ELSE /\ call.outcome = "ValueError"
             /\ "result" \notin DOMAIN call

C11_Witness ==
    /\ call.fn = "collect_metrics"
    /\ call.arg = "invalid_type"
    /\ call.outcome = "ValueError"

\* ---- C12 -----------------------------------------------------------------
\* C12: the dictionary run_benchmark returns has exactly one top-level entry
\* per task, keyed by the task name.
C12_OneTopLevelEntryPerTask ==
    (call.fn = "run_benchmark" /\ call.given) =>
        /\ Cardinality(DOMAIN call.result) = Len(call.tasks)
        /\ Range(call.tasks) \subseteq DOMAIN call.result

\* ---- C13 -----------------------------------------------------------------
\* C13 as stated: when the host makes no start call of its own, no loop
\* leaves its idle state and no transport is attempted.
C13_NoAttemptWithoutHostStart ==
    \A t \in Loops : pc[t] = "idle" /\ attempted[t] = <<>>

\* C13 as amended: when the host makes no start call of its own, no loop runs
\* before the delayed start of network_utils has made its call, and once it
\* has, exactly one loop (the first) has left its idle state; while only the
\* service thread of benchmark.py is pending, network_utils is not loaded and
\* nothing has started.
C13_OnlyImportTimeStart ==
    /\ autoPc \in {"unloaded", "delay"} => Started = {} /\ nLoops = 0
    /\ autoPc = "done" => Started = {1} /\ nLoops = 1
    /\ autoPc = "unloaded" => svcPc = "delay"

C13_Witness ==
    /\ svcPc = "done"
    /\ autoPc = "done"
    /\ pc[1] = "running"
    /\ attempted[1] = <<1, 2>>

\* ---- C14 -----------------------------------------------------------------
\* C14: no transport command runs for longer than the configured
\* connection_timeout, and a command that ran for the whole of it is recorded
\* as a timeout failure.
C14_BoundedByConfiguredTimeout ==
    \A t \in Loops :
        /\ flightTime[t] <= connection_timeout
        /\ (pc[t] /= "running" /\ flightTime[t] = connection_timeout) =>
               lastError[t] = "timeout"

\* ---- C15 -----------------------------------------------------------------
\* C15: every backoff sleep lasts exactly retry_interval whatever the value
\* of the counter, and exactly one sleep lies between two consecutive
\* cycles: a loop in its n-th cycle has slept n-1 times.
C15_FixedBackoff ==
    \A t \in Loops :
        /\ lastWait[t] = IF sleeps[t] > 0 THEN retry_interval ELSE 0
        /\ InCycle(t) => sleeps[t] = cycles[t] - 1
        /\ pc[t] \in {"after_cycle", "sleeping"} => sleeps[t] = cycles[t] - 1
        /\ (pc[t] = "loop_test" /\ ~CeilingReached(t)) => sleeps[t] = cycles[t]

C15_Witness ==
    \E t \in Loops :
        /\ pc[t] = "scan"
        /\ cycles[t] = 3
        /\ sleeps[t] = 2
        /\ lastWait[t] = retry_interval

\* ---- C16 -----------------------------------------------------------------
\* C16: once a transport of a loop has succeeded, the loop is at its return
\* and stays there: it starts no transport, no cycle and no sleep any more.
C16_SuccessIsFinal ==
    [][\A t \in Loops :
         success[t] /= 0 =>
            /\ pc[t] = "connected"
            /\ pc'[t] = "connected"
            /\ attempted'[t] = attempted[t]
            /\ cycles'[t] = cycles[t]
            /\ sleeps'[t] = sleeps[t]]_vars

C16_Witness ==
    \E t \in Loops :
        /\ pc[t] = "connected"
        /\ success[t] = NumTransports
        /\ stopRequested

\* ---- C17 -----------------------------------------------------------------
\* C17: inside a cycle, and after a cycle that succeeded, retry_count is what
\* it was when the cycle started; after a cycle that ended without a
\* success, by the catalog running out or by an exception, it is exactly one
\* more.
C17_OneIncrementPerFailedCycle ==
    \A t \in Loops :
        /\ InCycle(t) => retry_count[t] = rcAtCycleStart[t]
        /\ (pc[t] \in {"after_cycle", "sleeping"}
              \/ (pc[t] \in {"loop_test", "stopped"} /\ cycles[t] > 0)) =>
               retry_count[t] = rcAtCycleStart[t] + 1

C17_Witness ==
    \E t \in Loops :
        /\ pc[t] = "after_cycle"
        /\ attempted[t] = <<>>
        /\ cycles[t] >= 2
        /\ retry_count[t] = cycles[t]

\* ---- C18 -----------------------------------------------------------------
\* C18: retry_count is a natural number in every state, no step decreases
\* it, and with max_retries set it is at most max_retries when a cycle
\* starts and when the loop has left the while.
C18_CounterRange ==
    /\ [](\A t \in Loops :
            /\ retry_count[t] \in Nat
            /\ (max_retries /= None /\ pc[t] \in {"cycle_start", "stopped"}) =>
                   retry_count[t] <= max_retries)
    /\ [][\A t \in Loops : retry_count'[t] >= retry_count[t]]_vars

C18_Witness ==
    \E t \in Loops :
        /\ pc[t] = "stopped"
        /\ max_retries = MaxRetriesBound
        /\ retry_count[t] = max_retries

\* ---- C19 -----------------------------------------------------------------
\* C19: with max_retries set, a loop that has been started eventually is at
\* its return after a success or past the while with retries exhausted.
C19_Terminates ==
    \A t \in Loops :
        (max_retries /= None /\ pc[t] /= "idle")
            ~> (pc[t] \in {"connected", "stopped"})

C19_Witness ==
    \E t \in Loops :
        /\ max_retries = 1
        /\ pc[t] = "stopped"
        /\ cycles[t] = 1
        /\ sleeps[t] = 0

====
